---- MODULE Spec2Model ----
(***************************************************************************)
(* Peer negotiation of spell-vision: the Firestore relay client            *)
(* (WebRTCSignaling), the negotiation handlers of WebRTCPeer driving an    *)
(* RTCPeerConnection, the data channel, and the RemoteFeed facade.         *)
(* The model follows the latest lib/webrtc.ts (the one with init()) and    *)
(* components/remote-feed.tsx.                                             *)
(***************************************************************************)
EXTENDS Integers, Sequences, FiniteSets, TLC

\* ---------------------------------------------------------------- bounds
MaxPeers == 2      \* peers one facade may create (calls of connect)
MaxCands == 1      \* candidates one connection discovers
MaxStale == 1      \* messages left in the room by an earlier session
MaxSends == 2      \* payloads one facade sends on the data channel
MaxCloses == 2     \* calls of disconnect that find the same peer
MaxDup == 1        \* times one listener gets a document again
MaxFail == 1       \* writes to the room that are rejected

\* ------------------------------------------------------- peers and roles
Roles == {"caller", "callee"}

Peers == Roles \X (1..MaxPeers)

NoPeer == <<"none", 0>>

\* gameRef.current before the effect that constructs the Game has run
NoGame == [constructed |-> FALSE]

\* a peer of the session that ran in the room before (generation 0)
OldPeer(r) == <<r, 0>>

RoleOf(p) == p[1]

\* a handler of onicecandidate that addresses every candidate to "other"
toOther(peerId) == "other"

\* onicecandidate: const targetPeer = peerId === 'caller' ? 'callee' : 'caller'
targetPeer(peerId) == IF peerId = "caller" THEN "callee" ELSE "caller"

\* ------------------------------------------- payloads of relay messages
\* One record shape for every payload: a session description (offer,
\* answer), an ICE candidate, or null.
\*   by : the peer that created it      n  : its number at that peer
\*   re : the description it refers to (answer -> offer, candidate -> the
\*        local description whose ufrag it carries)
\*   m  : the description has a media or data section (a transport)
\*   dc : the description has the data channel section
NoRef == <<NoPeer, 0>>

NullData == [k |-> "null", by |-> NoPeer, n |-> 0, re |-> NoRef,
             m |-> FALSE, dc |-> FALSE]

Ref(d) == <<d.by, d.n>>

\* a document of the room: the SignalingMessage and, as src, the peer
\* that added it (two Ready messages have equal fields but are two
\* documents)
SignalingMessage(type, data, from, to, src) ==
  [type |-> type, data |-> data, from |-> from, to |-> to, src |-> src]

\* -------------------------------------------------------------- variables
VARIABLES
  relay,        \* documents in rooms/<roomId>/messages
  purged,       \* documents deleted by the purge of some init()
  sent,         \* every document added by a peer of this session
  relayLog,     \* sendMessage calls, documents written, calls rejected
  listening,    \* peer -> the onSnapshot listener is registered
  seen,         \* peer -> documents its listener got as 'added'
  delivered,    \* peer -> documents handed to onMessage
  redelivered,  \* peer -> documents handed to onMessage once more
  pc,           \* peer -> state of its RTCPeerConnection
  chain,        \* peer -> operations chain of its RTCPeerConnection
  discovered,   \* peer -> candidates found so far
  dataChannel,  \* peer -> readyState of this.dataChannel, or "null"
  wire,         \* peer -> data channel messages in flight to it
  cstep,        \* peer -> position of the connect() that created it
  closeCount,   \* peer -> calls of close()
  teardown,     \* peer -> what its close() calls have released, in order
  caught,       \* peer -> errors caught in handleSignalingMessage
  unhandled,    \* peer -> errors that escaped a handler
  peerState,    \* facade -> React state `peer` (latest setPeer)
  peerRef,      \* facade -> `peer` as seen by the rendered closures
  isConnected,  \* facade -> React state `isConnected`
  gen,          \* facade -> peers created so far
  sentLog,      \* facade -> payloads its data channel has sent
  received,     \* facade -> values handed to the receive callback
  lastSend,     \* facade -> what its last sendData call did
  handles,      \* peer -> the channels assigned to this.dataChannel
  game          \* the Game of the application, or NoGame before `new Game()`

relayVars  == <<relay, purged, sent, relayLog>>
listenVars == <<listening, seen, delivered, redelivered>>
connVars   == <<pc, chain, discovered, caught, unhandled>>
dataVars   == <<dataChannel, wire, sentLog, received, lastSend,
               handles>>
facadeVars == <<cstep, closeCount, teardown, peerState, peerRef, isConnected,
               gen>>

netVars == <<relayVars, listenVars, connVars, dataVars, facadeVars>>

vars == <<netVars, game>>

\* ------------------------------------------------- RTCPeerConnection
NewPC == [sig |-> "stable", local |-> NullData, remote |-> NullData,
          conn |-> "new", cands |-> {}, last |-> NullData, n |-> 0,
          tracks |-> FALSE, gathering |-> "new"]

\* createOffer(): allowed in stable and have-local-offer; the offer has a
\* section for the tracks added so far and for the data channel, if one
\* was created before this call.
createOffer(c, self, hasDC) ==
  LET off == [k |-> "offer", by |-> self, n |-> c.n + 1, re |-> NoRef,
              m |-> (c.tracks \/ hasDC), dc |-> hasDC]
  IN  IF c.sig \in {"stable", "have-local-offer"}
      THEN [ok |-> TRUE, pc |-> [c EXCEPT !.n = c.n + 1, !.last = off],
            out |-> off]
      ELSE [ok |-> FALSE, pc |-> c, out |-> NullData]

\* createAnswer(): allowed only while a remote offer is pending; it
\* answers the sections of that offer.
createAnswer(c, self) ==
  LET ans == [k |-> "answer", by |-> self, n |-> c.n + 1,
              re |-> Ref(c.remote), m |-> c.remote.m, dc |-> c.remote.dc]
  IN  IF c.sig = "have-remote-offer"
      THEN [ok |-> TRUE, pc |-> [c EXCEPT !.n = c.n + 1, !.last = ans],
            out |-> ans]
      ELSE [ok |-> FALSE, pc |-> c, out |-> NullData]

\* setLocalDescription(d): d must be the description created last.
setLocalDescription(c, d) ==
  IF d.k = "offer" /\ c.sig \in {"stable", "have-local-offer"} /\ d = c.last
  THEN [ok |-> TRUE, pc |-> [c EXCEPT !.sig = "have-local-offer",
                                      !.local = d], out |-> d]
  ELSE IF d.k = "answer" /\ c.sig = "have-remote-offer" /\ d = c.last
  THEN [ok |-> TRUE, pc |-> [c EXCEPT !.sig = "stable", !.local = d],
        out |-> d]
  ELSE [ok |-> FALSE, pc |-> c, out |-> NullData]

\* the signaling states in which a remote answer is applied
AcceptsAnswer(sig) == sig = "have-local-offer"

\* the signaling states in which a remote offer is applied (an offer that
\* meets a local offer rolls the local offer back)
AcceptsOffer(sig) ==
  sig \in {"stable", "have-remote-offer", "have-local-offer"}

\* setRemoteDescription(d)
setRemoteDescription(c, d) ==
  IF d.k = "offer" /\ AcceptsOffer(c.sig)
  THEN [ok |-> TRUE,
        pc |-> [c EXCEPT !.sig = "have-remote-offer", !.remote = d,
                         !.local = IF c.sig = "have-local-offer"
                                   THEN NullData ELSE c.local,
                         !.cands = {x \in c.cands : x[1] = d.by}],
        out |-> d]
  ELSE IF d.k = "answer" /\ AcceptsAnswer(c.sig)
  THEN [ok |-> TRUE, pc |-> [c EXCEPT !.sig = "stable", !.remote = d],
        out |-> d]
  ELSE [ok |-> FALSE, pc |-> c, out |-> NullData]

\* addIceCandidate(d): rejected while no remote description is set, and
\* when the candidate's ufrag is not the remote description's.
addIceCandidate(c, d) ==
  IF c.sig # "closed" /\ c.remote # NullData /\ d.k = "cand"
     /\ d.by = c.remote.by
  THEN [ok |-> TRUE, pc |-> [c EXCEPT !.cands = c.cands \cup {Ref(d)}],
        out |-> d]
  ELSE [ok |-> FALSE, pc |-> c, out |-> NullData]

\* an entry of the operations chain
Op(op, arg) == [op |-> op, arg |-> arg]

ApplyOp(c, self, hasDC, o) ==
  CASE o.op = "createOffer"  -> createOffer(c, self, hasDC)
    [] o.op = "createAnswer" -> createAnswer(c, self)
    [] o.op = "setLocal"     -> setLocalDescription(c, o.arg)
    [] o.op = "setRemote"    -> setRemoteDescription(c, o.arg)
    [] OTHER                 -> addIceCandidate(c, o.arg)

\* the phase of the negotiation state machine of section 4.2
Phase(p) ==
  CASE closeCount[p] > 0                 -> "Closed"
    [] pc[p].conn = "failed"             -> "Failed"
    [] pc[p].conn = "connected"          -> "Connected"
    [] pc[p].sig = "have-local-offer"    -> "OfferSent"
    [] pc[p].local.k = "answer"          -> "AnswerSent"
    [] OTHER                             -> "Idle"

\* --------------------------------------------------------- relay client
\* listenForMessages: "is this message addressed to us"
Addressed(message, peerId) == message.to = peerId

\* documents a crashed earlier session can have left in the room
StaleOffer == [k |-> "offer", by |-> OldPeer("caller"), n |-> 1,
               re |-> NoRef, m |-> TRUE, dc |-> TRUE]

StaleAnswer == [k |-> "answer", by |-> OldPeer("callee"), n |-> 1,
                re |-> Ref(StaleOffer), m |-> TRUE, dc |-> TRUE]

StaleCand(r) == [k |-> "cand", by |-> OldPeer(r), n |-> 1, re |-> NoRef,
                 m |-> FALSE, dc |-> FALSE]

StaleDocs ==
  { SignalingMessage("ready", NullData, "callee", "caller", OldPeer("callee")),
    SignalingMessage("offer", StaleOffer, "caller", "callee", OldPeer("caller")),
    SignalingMessage("answer", StaleAnswer, "callee", "caller", OldPeer("callee")),
    SignalingMessage("ice-candidate", StaleCand("caller"), "caller", "callee",
                     OldPeer("caller")),
    SignalingMessage("ice-candidate", StaleCand("callee"), "callee", "caller",
                     OldPeer("callee")),
    SignalingMessage("ice-candidate", StaleCand("caller"), "caller", "other",
                     OldPeer("caller")) }

\* the first connection operation handleSignalingMessage starts for a
\* message, or none
FirstOp(message, peerId) ==
  CASE message.type = "ready" ->
         IF peerId = "caller" THEN <<Op("createOffer", NullData)>> ELSE <<>>
    [] message.type = "offer"  -> <<Op("setRemote", message.data)>>
    [] message.type = "answer" -> <<Op("setRemote", message.data)>>
    [] OTHER                   -> <<Op("addIce", message.data)>>

\* ------------------------------------------------------------------ Init
Init ==
  /\ relay \in {S \in SUBSET StaleDocs : Cardinality(S) <= MaxStale}
  /\ purged = {}
  /\ sent = {}
  /\ relayLog = [calls |-> 0, written |-> 0, rejected |-> 0]
  /\ listening = [p \in Peers |-> FALSE]
  /\ seen = [p \in Peers |-> {}]
  /\ delivered = [p \in Peers |-> {}]
  /\ redelivered = [p \in Peers |-> 0]
  /\ pc = [p \in Peers |-> NewPC]
  /\ chain = [p \in Peers |-> <<>>]
  /\ discovered = [p \in Peers |-> 0]
  /\ dataChannel = [p \in Peers |-> "null"]
  /\ wire = [p \in Peers |-> <<>>]
  /\ cstep = [p \in Peers |-> "none"]
  /\ closeCount = [p \in Peers |-> 0]
  /\ teardown = [p \in Peers |-> <<>>]
  /\ caught = [p \in Peers |-> 0]
  /\ unhandled = [p \in Peers |-> 0]
  /\ peerState = [f \in Roles |-> NoPeer]
  /\ peerRef = [f \in Roles |-> NoPeer]
  /\ isConnected = [f \in Roles |-> FALSE]
  /\ gen = [f \in Roles |-> 0]
  /\ sentLog = [f \in Roles |-> <<>>]
  /\ received = [f \in Roles |-> <<>>]
  /\ lastSend = [f \in Roles |-> "none"]
  /\ handles = [p \in Peers |-> <<>>]
  /\ game = NoGame

\* --------------------------------------------------------- WebRTCPeer.close
\* close() of every peer in Q: dataChannel?.close(), peerConnection.close(),
\* signaling.close() (unsubscribe)
CloseDC(Q) ==
  [p \in Peers |-> IF p \in Q /\ dataChannel[p] # "null" THEN "closed"
                   ELSE dataChannel[p]]

ClosePC(Q) ==
  [p \in Peers |-> IF p \in Q
                   THEN [pc[p] EXCEPT !.sig = "closed", !.conn = "closed"]
                   ELSE pc[p]]

CloseChain(Q) == [p \in Peers |-> IF p \in Q THEN <<>> ELSE chain[p]]

\* close() that releases the connection only and leaves the listener
\* registered
KeepListener(Q) == listening

CloseListener(Q) == [p \in Peers |-> IF p \in Q THEN FALSE ELSE listening[p]]

CloseCounted(Q) ==
  [p \in Peers |-> IF p \in Q THEN closeCount[p] + 1 ELSE closeCount[p]]

\* the order of the statements of close()
closeOrder == <<"dataChannel", "peerConnection", "signaling">>

CloseLogged(Q) ==
  [p \in Peers |-> IF p \in Q THEN teardown[p] \o closeOrder ELSE teardown[p]]

\* ------------------------------------------------------ RemoteFeed.connect
\* init() that purges without having registered the listener
listenAfterPurge(L, p) == L

\* init(): this.listenForMessages() is its first statement
listenForMessages(L, p) == [L EXCEPT ![p] = TRUE]

\* connect() in which the callee creates a data channel of its own too
AfterInitBothCreate(p) ==
  /\ pc' = [pc EXCEPT ![p].tracks = TRUE]
  /\ dataChannel' = [dataChannel EXCEPT ![p] = "connecting"]
  /\ handles' = [handles EXCEPT ![p] = Append(@, <<"created", p>>)]
  /\ IF RoleOf(p) = "caller"
     THEN /\ peerState' = [peerState EXCEPT ![RoleOf(p)] = p]
          /\ isConnected' = [isConnected EXCEPT ![RoleOf(p)] = TRUE]
          /\ cstep' = [cstep EXCEPT ![p] = "done"]
     ELSE /\ cstep' = [cstep EXCEPT ![p] = "delay"]
          /\ UNCHANGED <<peerState, isConnected>>

\* connect(newRoomId, connectPeerId) up to its first await: close the peer
\* the closure holds, construct the new peer, and in init() register the
\* listener and issue getDocs.
Connect(f) ==
  /\ gen[f] < MaxPeers
  /\ LET old == peerRef[f]
         Q   == IF old # NoPeer THEN {old} ELSE {}
         p   == <<f, gen[f] + 1>>
     IN  /\ gen' = [gen EXCEPT ![f] = gen[f] + 1]
         /\ peerState' = IF old # NoPeer THEN [peerState EXCEPT ![f] = NoPeer]
                         ELSE peerState
         /\ dataChannel' = CloseDC(Q)
         /\ pc' = ClosePC(Q)
         /\ chain' = CloseChain(Q)
         /\ closeCount' = CloseCounted(Q)
         /\ teardown' = CloseLogged(Q)
         /\ listening' = listenForMessages(CloseListener(Q), p)
         /\ cstep' = [cstep EXCEPT ![p] = "getDocs"]
  /\ UNCHANGED <<relayVars, seen, delivered, redelivered, discovered, caught,
                 unhandled,
                 wire, sentLog, received, lastSend, handles, peerRef,
                 isConnected>>
  /\ UNCHANGED game

\* connect() in which the caller, too, waits and sends a Ready
AfterInitBothReady(p) ==
  /\ pc' = [pc EXCEPT ![p].tracks = TRUE]
  /\ cstep' = [cstep EXCEPT ![p] = "delay"]
  /\ IF RoleOf(p) = "caller"
     THEN /\ dataChannel' = [dataChannel EXCEPT ![p] = "connecting"]
          /\ handles' = [handles EXCEPT ![p] = Append(@, <<"created", p>>)]
     ELSE UNCHANGED <<dataChannel, handles>>
  /\ UNCHANGED <<peerState, isConnected>>

\* connect() after `await newPeer.init()`: addLocalStream adds the tracks;
\* the caller creates the data channel and is stored with setPeer, the
\* callee starts its 100 ms delay
AfterInit(p) ==
  /\ pc' = [pc EXCEPT ![p].tracks = TRUE]
  /\ IF RoleOf(p) = "caller"
     THEN /\ dataChannel' = [dataChannel EXCEPT ![p] = "connecting"]
          /\ handles' = [handles EXCEPT ![p] = Append(@, <<"created", p>>)]
          /\ peerState' = [peerState EXCEPT ![RoleOf(p)] = p]
          /\ isConnected' = [isConnected EXCEPT ![RoleOf(p)] = TRUE]
          /\ cstep' = [cstep EXCEPT ![p] = "done"]
     ELSE /\ cstep' = [cstep EXCEPT ![p] = "delay"]
          /\ UNCHANGED <<dataChannel, handles, peerState, isConnected>>

\* init(): getDocs resolves with the documents of the room and a deleteDoc
\* is issued for each of them; with nothing to delete, Promise.all([])
\* resolves at once and connect() runs on without yielding
GetDocs(p) ==
  /\ cstep[p] = "getDocs"
  /\ purged' = purged \cup relay
  /\ relay' = {}
  /\ IF relay = {}
     THEN AfterInit(p)
     ELSE /\ cstep' = [cstep EXCEPT ![p] = "purging"]
          /\ UNCHANGED <<pc, dataChannel, handles, peerState, isConnected>>
  /\ UNCHANGED <<sent, relayLog, listenVars, chain, discovered, caught,
                 unhandled,
                 wire, sentLog, received, lastSend, closeCount, teardown,
                 peerRef, gen>>
  /\ UNCHANGED game

\* the deletes are acknowledged: init() returns
InitDone(p) ==
  /\ cstep[p] = "purging"
  /\ AfterInit(p)
  /\ UNCHANGED <<relayVars, listenVars, chain, discovered, caught, unhandled,
                 wire, sentLog, received, lastSend, closeCount, teardown,
                 peerRef, gen>>
  /\ UNCHANGED game

\* a relay client that writes the message again when the write was
\* rejected
sendMessageRetry(message, ok) ==
  /\ relay' = relay \cup {message}
  /\ sent' = sent \cup {message}
  /\ relayLog' = [relayLog EXCEPT !.calls = @ + 1, !.written = @ + 1,
                                  !.rejected = IF ok THEN @ ELSE @ + 1]

\* sendMessage(message): one addDoc, awaited; ok is whether the room
\* accepts the write.  A rejected write adds nothing and rejects the
\* promise sendMessage returned.
sendMessage(message, ok) ==
  /\ relay' = IF ok THEN relay \cup {message} ELSE relay
  /\ sent' = IF ok THEN sent \cup {message} ELSE sent
  /\ relayLog' = [relayLog EXCEPT !.calls = @ + 1,
                                  !.written = IF ok THEN @ + 1 ELSE @,
                                  !.rejected = IF ok THEN @ ELSE @ + 1]

\* sendReady(): the callee adds the Ready document; when the write is
\* rejected the error leaves sendReady and connect(), and setPeer is not
\* reached
sendReadyWith(p, ok) ==
  /\ cstep[p] = "delay"
  /\ sendMessage(SignalingMessage("ready", NullData, RoleOf(p), "caller", p),
                 ok)
  /\ cstep' = [cstep EXCEPT ![p] = IF ok THEN "ready-sent" ELSE "rejected"]
  /\ UNCHANGED <<purged, listenVars, connVars, dataVars, closeCount,
                 teardown, peerState, peerRef, isConnected, gen>>
  /\ UNCHANGED game

sendReady(p) == sendReadyWith(p, TRUE)

\* the Ready is written: setPeer(newPeer), setIsConnected(true)
ConnectDone(p) ==
  /\ cstep[p] = "ready-sent"
  /\ peerState' = [peerState EXCEPT ![RoleOf(p)] = p]
  /\ isConnected' = [isConnected EXCEPT ![RoleOf(p)] = TRUE]
  /\ cstep' = [cstep EXCEPT ![p] = "done"]
  /\ UNCHANGED <<relayVars, listenVars, connVars, dataVars, closeCount,
                 teardown, peerRef, gen>>
  /\ UNCHANGED game

\* ------------------------------------------------------ RemoteFeed render
\* React renders the facade with the latest `peer`; useImperativeHandle
\* rebuilds the closures, and the cleanup of useEffect(..., [peer]) closes
\* the peer of the previous render
Render(f) ==
  /\ peerRef[f] # peerState[f]
  /\ LET Q == IF peerRef[f] # NoPeer THEN {peerRef[f]} ELSE {}
     IN  /\ dataChannel' = CloseDC(Q)
         /\ pc' = ClosePC(Q)
         /\ chain' = CloseChain(Q)
         /\ closeCount' = CloseCounted(Q)
         /\ teardown' = CloseLogged(Q)
         /\ listening' = CloseListener(Q)
  /\ peerRef' = [peerRef EXCEPT ![f] = peerState[f]]
  /\ UNCHANGED <<relayVars, seen, delivered, redelivered, discovered, caught,
                 unhandled,
                 wire, sentLog, received, lastSend, handles, cstep, peerState,
                 isConnected, gen>>
  /\ UNCHANGED game

\* disconnect(): a no-op unless the closure holds a peer
Disconnect(f) ==
  /\ peerRef[f] # NoPeer
  /\ closeCount[peerRef[f]] < MaxCloses
  /\ LET Q == {peerRef[f]}
     IN  /\ dataChannel' = CloseDC(Q)
         /\ pc' = ClosePC(Q)
         /\ chain' = CloseChain(Q)
         /\ closeCount' = CloseCounted(Q)
         /\ teardown' = CloseLogged(Q)
         /\ listening' = CloseListener(Q)
  /\ peerState' = [peerState EXCEPT ![f] = NoPeer]
  /\ isConnected' = [isConnected EXCEPT ![f] = FALSE]
  /\ UNCHANGED <<relayVars, seen, delivered, redelivered, discovered, caught,
                 unhandled,
                 wire, sentLog, received, lastSend, handles, cstep, peerRef,
                 gen>>
  /\ UNCHANGED game

\* ------------------------------------------- listenForMessages callback
\* The Firestore client of participant r raises one snapshot with document
\* d as 'added' to every listener registered on the room that has not had
\* it; each listener that finds the message addressed to it calls
\* onMessage and deleteDoc.
Listeners(r, d) ==
  {p \in Peers : RoleOf(p) = r /\ listening[p] /\ d \notin seen[p]}

\* the else branch of the callback: the message is logged as skipped
\* and deleted along with the handled ones
skipAndDelete(R, d) == R \ {d}

\* the else branch of the callback ("Skipping (not for us)"): the room
\* after a message that is not addressed to the listener
skipMessage(R, d) == R

\* a callback that leaves the handled message in the room
keepDoc(R, d) == R

\* deleteDoc(change.doc.ref) after onMessage
deleteDoc(R, d) == R \ {d}

Notify(r, d) ==
  /\ d \in relay
  /\ Listeners(r, d) # {}
  /\ LET L == Listeners(r, d)
     IN  /\ seen' = [p \in Peers |-> IF p \in L THEN seen[p] \cup {d}
                                     ELSE seen[p]]
         /\ IF Addressed(d, r)
            THEN /\ delivered' = [p \in Peers |->
                       IF p \in L THEN delivered[p] \cup {d} ELSE delivered[p]]
                 /\ chain' = [p \in Peers |->
                       IF p \in L THEN chain[p] \o FirstOp(d, r) ELSE chain[p]]
                 /\ relay' = deleteDoc(relay, d)
            ELSE /\ relay' = skipMessage(relay, d)
                 /\ UNCHANGED <<delivered, chain>>
  /\ UNCHANGED <<purged, sent, relayLog, listening, redelivered, pc,
                 discovered, caught, unhandled, dataVars, facadeVars>>
  /\ UNCHANGED game

\* deleteDoc is not awaited: when the delete of a handled document is
\* rejected, the local removal is reverted and the listener gets the
\* document as 'added' once more
Redeliver(p, d) ==
  /\ listening[p]
  /\ d \in delivered[p]
  /\ redelivered[p] < MaxDup
  /\ redelivered' = [redelivered EXCEPT ![p] = @ + 1]
  /\ chain' = [chain EXCEPT ![p] = @ \o FirstOp(d, RoleOf(p))]
  /\ UNCHANGED <<relayVars, listening, seen, delivered, pc, discovered,
                 caught, unhandled, dataVars, facadeVars>>
  /\ UNCHANGED game

\* ------------------------------------------- handleSignalingMessage steps
\* a handler that sends every description it has stored as an Offer
replyAlwaysOffer(p, desc) ==
  SignalingMessage("offer", desc, "caller", "callee", p)

\* The connection runs the operation at the head of its chain; the handler
\* that awaited it goes on to its next call, or to its catch block.  The
\* message sent after setLocalDescription: an Offer by the handler of
\* Ready, an Answer by the handler of Offer.
Reply(p, desc) ==
  IF desc.k = "offer"
  THEN SignalingMessage("offer", desc, "caller", "callee", p)
  ELSE SignalingMessage("answer", desc, "callee", "caller", p)

\* handleSignalingMessage without its try/catch: the error of a rejected
\* operation leaves the handler
rethrowError(p, ok) ==
  /\ unhandled' = [unhandled EXCEPT ![p] = IF ok THEN @ ELSE @ + 1]
  /\ UNCHANGED caught

\* the catch block of handleSignalingMessage: the error of a rejected
\* operation is logged and goes no further
catchError(p, ok) ==
  /\ caught' = [caught EXCEPT ![p] = IF ok THEN @ ELSE @ + 1]
  /\ UNCHANGED unhandled

\* a handler that does not await setLocalDescription: the message is sent
\* whether or not the description was stored
sendUnawaited(ok, op) == op = "setLocal"

\* `await setLocalDescription(...)` followed by `await sendMessage(...)`
\* in the try block: sendMessage is reached when the operation awaited
\* last was setLocalDescription and it was fulfilled
sendReached(ok, op) == ok /\ op = "setLocal"

\* sendOk: whether the room accepts the write, if the step reaches one
RunOpWith(p, sendOk) ==
  /\ chain[p] # <<>>
  /\ LET o == Head(chain[p])
         r == ApplyOp(pc[p], p, dataChannel[p] # "null", o)
     IN  /\ sendOk \/ sendReached(r.ok, o.op)
         /\ pc' = [pc EXCEPT ![p] = r.pc]
         /\ catchError(p, r.ok /\ sendOk)
         /\ chain' = [chain EXCEPT ![p] =
              IF ~r.ok THEN Tail(@)
              ELSE IF o.op \in {"createOffer", "createAnswer"}
                   THEN Append(Tail(@), Op("setLocal", r.out))
              ELSE IF o.op = "setRemote" /\ o.arg.k = "offer"
                   THEN Append(Tail(@), Op("createAnswer", NullData))
              ELSE Tail(@)]
         /\ IF sendReached(r.ok, o.op)
            THEN sendMessage(Reply(p, o.arg), sendOk)
            ELSE UNCHANGED <<relay, sent, relayLog>>
  /\ UNCHANGED <<purged, listenVars, discovered, dataVars, facadeVars>>
  /\ UNCHANGED game

RunOp(p) == RunOpWith(p, TRUE)

\* --------------------------------------------- RTCPeerConnection events
\* onicecandidate with a candidate: gathering runs once a local description
\* with a transport is set.  sendMessage is not awaited: when the write is
\* rejected, the rejection of its promise is handled by nobody
onicecandidateWith(p, ok) ==
  /\ pc[p].local # NullData
  /\ pc[p].local.m
  /\ pc[p].sig # "closed"
  /\ pc[p].gathering # "complete"
  /\ discovered[p] < MaxCands
  /\ LET c == [k |-> "cand", by |-> p, n |-> discovered[p] + 1, re |-> NoRef,
               m |-> FALSE, dc |-> FALSE]
         d == SignalingMessage("ice-candidate", c, RoleOf(p),
                               targetPeer(RoleOf(p)), p)
     IN  sendMessage(d, ok)
  /\ discovered' = [discovered EXCEPT ![p] = @ + 1]
  /\ pc' = [pc EXCEPT ![p].gathering = "gathering"]
  /\ unhandled' = [unhandled EXCEPT ![p] = IF ok THEN @ ELSE @ + 1]
  /\ UNCHANGED <<purged, listenVars, chain, caught, dataVars, facadeVars>>
  /\ UNCHANGED game

onicecandidate(p) == onicecandidateWith(p, TRUE)

\* onicecandidate with event.candidate null, raised once when the
\* connection has found its last candidate: the handler logs and sends
\* nothing
onicecandidateNull(p) ==
  /\ pc[p].local # NullData
  /\ pc[p].local.m
  /\ pc[p].sig # "closed"
  /\ pc[p].gathering # "complete"
  /\ discovered[p] = MaxCands
  /\ pc' = [pc EXCEPT ![p].gathering = "complete"]
  /\ UNCHANGED <<relayVars, listenVars, chain, discovered, caught, unhandled,
                 dataVars, facadeVars>>
  /\ UNCHANGED game

\* p and q have applied each other's descriptions, these have a transport,
\* and one of them knows a candidate of the other
Linked(p, q) ==
  /\ RoleOf(p) # RoleOf(q)
  /\ pc[p].sig = "stable" /\ pc[q].sig = "stable"
  /\ pc[p].local # NullData /\ pc[q].local # NullData
  /\ pc[p].remote = pc[q].local
  /\ pc[q].remote = pc[p].local
  /\ pc[p].local.m
  /\ (pc[p].cands # {} \/ pc[q].cands # {})

\* onconnectionstatechange: the transport between p and q is established
\* and both connections report "connected"
ConnectionEstablished(p, q) ==
  /\ Linked(p, q)
  /\ pc[p].conn = "new" \/ pc[q].conn = "new"
  /\ pc[p].conn # "failed" /\ pc[q].conn # "failed"
  /\ pc' = [pc EXCEPT ![p].conn = "connected", ![q].conn = "connected"]
  /\ UNCHANGED <<relayVars, listenVars, chain, discovered, caught, unhandled,
                 dataVars, facadeVars>>
  /\ UNCHANGED game

\* onconnectionstatechange with connectionState "failed": the ICE
\* transport of a connection that has both descriptions gives up; the
\* handler writes the state to the console
ConnectionFailed(p) ==
  /\ pc[p].conn \in {"new", "connected"}
  /\ pc[p].sig # "closed"
  /\ pc[p].local # NullData /\ pc[p].remote # NullData
  /\ pc[p].local.m
  /\ pc' = [pc EXCEPT ![p].conn = "failed"]
  /\ UNCHANGED <<relayVars, listenVars, chain, discovered, caught, unhandled,
                 dataVars, facadeVars>>
  /\ UNCHANGED game

\* ------------------------------------------------------------ JSON values
\* A JavaScript value: a scalar (t, s) or an object with scalar properties.
Scalar(t, s) == [t |-> t, s |-> s, props |-> <<>>]

Obj(props) == [t |-> "obj", s |-> "", props |-> props]

Prop(key, val) == [key |-> key, val |-> val]

NumTokens == {"0", "1", "5"}

\* JSON.stringify of a scalar; NaN is written as null
StringifyScalar(v) ==
  CASE v.t = "str"  -> <<"\"", v.s>>
    [] v.t = "num"  -> <<v.s>>
    [] v.t = "bool" -> <<v.s>>
    [] OTHER        -> <<"null">>

\* the properties of an object, those with value undefined left out
RECURSIVE StringifyProps(_, _)
StringifyProps(props, first) ==
  IF props = <<>> THEN <<>>
  ELSE LET h == Head(props)
       IN  IF h.val.t = "undefined"
           THEN StringifyProps(Tail(props), first)
           ELSE (IF first THEN <<>> ELSE <<",">>)
                \o <<"\"", h.key, ":">> \o StringifyScalar(h.val)
                \o StringifyProps(Tail(props), FALSE)

\* dataChannel.send(data) without JSON.stringify: an object is sent as the
\* text of String(data)
sendWithoutStringify(v) ==
  CASE v.t = "undefined" -> <<"undefined">>
    [] v.t = "obj"       -> <<"[object Object]">>
    [] OTHER             -> StringifyScalar(v)

\* dataChannel.send(JSON.stringify(data)): JSON.stringify(undefined) is
\* undefined, which send() turns into the text "undefined"
JSONstringify(v) ==
  CASE v.t = "undefined" -> <<"undefined">>
    [] v.t = "obj"       -> <<"{">> \o StringifyProps(v.props, TRUE) \o <<"}">>
    [] OTHER             -> StringifyScalar(v)

\* parse one scalar at position i of the text: [ok, val, next]
ParseScalar(toks, i) ==
  IF i > Len(toks) THEN [ok |-> FALSE, val |-> Scalar("null", ""), next |-> i]
  ELSE IF toks[i] = "\"" /\ i < Len(toks)
       THEN [ok |-> TRUE, val |-> Scalar("str", toks[i + 1]), next |-> i + 2]
  ELSE IF toks[i] = "null"
       THEN [ok |-> TRUE, val |-> Scalar("null", ""), next |-> i + 1]
  ELSE IF toks[i] \in {"true", "false"}
       THEN [ok |-> TRUE, val |-> Scalar("bool", toks[i]), next |-> i + 1]
  ELSE IF toks[i] \in NumTokens
       THEN [ok |-> TRUE, val |-> Scalar("num", toks[i]), next |-> i + 1]
  ELSE [ok |-> FALSE, val |-> Scalar("null", ""), next |-> i]

\* parse `"key" : scalar` pairs from position i up to the closing brace
RECURSIVE ParseProps(_, _, _)
ParseProps(toks, i, acc) ==
  IF i > Len(toks) THEN [ok |-> FALSE, val |-> Obj(acc), next |-> i]
  ELSE IF toks[i] = "}" /\ acc = <<>>
       THEN [ok |-> TRUE, val |-> Obj(acc), next |-> i + 1]
  ELSE IF i + 2 <= Len(toks) /\ toks[i] = "\"" /\ toks[i + 2] = ":"
       THEN LET v == ParseScalar(toks, i + 3)
            IN  IF ~v.ok \/ v.next > Len(toks)
                THEN [ok |-> FALSE, val |-> Obj(acc), next |-> i]
                ELSE LET acc2 == Append(acc, Prop(toks[i + 1], v.val))
                     IN  IF toks[v.next] = "}"
                         THEN [ok |-> TRUE, val |-> Obj(acc2),
                               next |-> v.next + 1]
                         ELSE IF toks[v.next] = ","
                         THEN ParseProps(toks, v.next + 1, acc2)
                         ELSE [ok |-> FALSE, val |-> Obj(acc), next |-> i]
  ELSE [ok |-> FALSE, val |-> Obj(acc), next |-> i]

\* JSON.parse(event.data): [ok, val]; ok is FALSE where it throws
JSONparse(toks) ==
  LET r == IF toks # <<>> /\ toks[1] = "{" THEN ParseProps(toks, 2, <<>>)
           ELSE ParseScalar(toks, 1)
  IN  [ok |-> r.ok /\ r.next = Len(toks) + 1, val |-> r.val]

\* the values the application passes to sendData
Payloads ==
  { Obj(<<Prop("type", Scalar("str", "ping"))>>),
    Obj(<<Prop("type", Scalar("str", "spell")), Prop("spell", Scalar("num", "1"))>>),
    Scalar("null", ""),
    Scalar("undefined", ""),
    Obj(<<Prop("health", Scalar("nan", ""))>>),
    Obj(<<Prop("type", Scalar("str", "ping")), Prop("x", Scalar("undefined", ""))>>) }

\* ------------------------------------------------------------ data channel
\* dataChannel.onopen on the side that created the channel: the channel
\* opens once the connection is established, if the offer announced it
DataChannelOpen(p) ==
  /\ dataChannel[p] = "connecting"
  /\ pc[p].conn = "connected"
  /\ pc[p].local.dc
  /\ dataChannel' = [dataChannel EXCEPT ![p] = "open"]
  /\ UNCHANGED <<relayVars, listenVars, connVars, wire, sentLog, received,
                 lastSend, handles, facadeVars>>
  /\ UNCHANGED game

\* the channels handed to p by an incoming-channel event
Adopted(p) ==
  {handles[p][i] : i \in {j \in 1..Len(handles[p]) :
                            handles[p][j][1] = "adopted"}}

\* ondatachannel on the other side, raised once for the channel the remote
\* peer announced in its offer: this.dataChannel = event.channel
ondatachannel(p) ==
  /\ pc[p].conn = "connected"
  /\ pc[p].remote.dc
  /\ pc[p].remote.k = "offer"
  /\ <<"adopted", pc[p].remote.by>> \notin Adopted(p)
  /\ dataChannel' = [dataChannel EXCEPT ![p] = "open"]
  /\ handles' = [handles EXCEPT ![p] =
                   Append(@, <<"adopted", pc[p].remote.by>>)]
  /\ UNCHANGED <<relayVars, listenVars, connVars, wire, sentLog, received,
                 lastSend, facadeVars>>
  /\ UNCHANGED game

\* sendData(data) of the facade and of its peer: without a peer the facade
\* logs an error and returns; with a peer whose channel is not open the
\* call does nothing at all; with an open channel the text is sent
sendData(f, data) ==
  LET p == peerRef[f]
  IN  IF p # NoPeer /\ dataChannel[p] = "open"
      THEN /\ Len(sentLog[f]) < MaxSends
           /\ wire' = [wire EXCEPT ![pc[p].remote.by] =
                         Append(@, [text |-> JSONstringify(data),
                                    orig |-> data])]
           /\ sentLog' = [sentLog EXCEPT ![f] = Append(@, data)]
           /\ lastSend' = [lastSend EXCEPT ![f] = "sent"]
           /\ UNCHANGED <<relayVars, listenVars, connVars, dataChannel,
                          received, handles, facadeVars, game>>
      ELSE /\ lastSend' = [lastSend EXCEPT ![f] =
                             IF p = NoPeer THEN "logged" ELSE "dropped"]
           /\ UNCHANGED <<relayVars, listenVars, connVars, dataChannel, wire,
                          sentLog, received, handles, facadeVars, game>>

\* onmessage that hands over whatever the parse left, also when it failed
handOverAlways(rcv, f, r, x) ==
  [rcv EXCEPT ![f] = Append(@, [got |-> r.val, orig |-> x.orig])]

\* this.onDataReceived(JSON.parse(event.data)): the callback is reached
\* only when JSON.parse has returned
handOver(rcv, f, r, x) ==
  IF r.ok THEN [rcv EXCEPT ![f] = Append(@, [got |-> r.val, orig |-> x.orig])]
  ELSE rcv

\* dataChannel.onmessage: onDataReceived(JSON.parse(event.data)), which the
\* facade passes to the callback the application registered on mount; an
\* error of JSON.parse leaves the handler
onmessage(p) ==
  /\ wire[p] # <<>>
  /\ dataChannel[p] = "open"
  /\ LET x == Head(wire[p])
         r == JSONparse(x.text)
     IN  /\ received' = handOver(received, RoleOf(p), r, x)
         /\ unhandled' = [unhandled EXCEPT ![p] = IF r.ok THEN @ ELSE @ + 1]
  /\ wire' = [wire EXCEPT ![p] = Tail(@)]
  /\ UNCHANGED <<relayVars, listenVars, pc, chain, discovered, caught,
                 dataChannel, sentLog, lastSend, handles, facadeVars>>
  /\ UNCHANGED game

\* ------------------------------------------------------------------- Next
\* the steps of connect() after its first await
ConnectStep(p) == GetDocs(p) \/ InitDone(p) \/ sendReady(p) \/ ConnectDone(p)

\* a snapshot with a document addressed to the participant.  (A snapshot
\* with any other document changes nothing but `seen`.)
Deliver(r, d) == Addressed(d, r) /\ Notify(r, d)

\* the events of the connections
ConnectionEvent ==
  \/ \E p \in Peers : RunOp(p)
  \/ \E p \in Peers : onicecandidate(p)
  \/ \E p \in Peers : onicecandidateNull(p)
  \/ \E p, q \in Peers : ConnectionEstablished(p, q)
  \/ \E p \in Peers : DataChannelOpen(p)
  \/ \E p \in Peers : ondatachannel(p)

\* One session: each participant calls connect once and stays connected.
Next ==
  \/ \E f \in Roles : gen[f] = 0 /\ Connect(f)
  \/ \E p \in Peers : ConnectStep(p)
  \/ \E r \in Roles : \E d \in relay : Deliver(r, d)
  \/ ConnectionEvent

Spec == Init /\ [][Next]_vars

\* The same session with every pending step of the program taken in the
\* end: the event loop runs every continuation of connect() and of the
\* handlers, Firestore raises every snapshot, and the connections raise
\* their events.  When the application calls connect is left open.
Progress ==
  \/ \E p \in Peers : ConnectStep(p)
  \/ \E r \in Roles : \E d \in relay : Deliver(r, d)
  \/ ConnectionEvent

SpecLive == Init /\ [][Next]_vars /\ WF_vars(Progress)

\* The same session with the application sending on the data channel.
InitClean == Init /\ relay = {}

NextData ==
  \/ Next
  \/ \E f \in Roles : Render(f)
  \/ \E f \in Roles : \E data \in Payloads : sendData(f, data)
  \/ \E p \in Peers : onmessage(p)

SpecData == InitClean /\ [][NextData]_vars

\* The session in which the Responder's connect has finished before the
\* Initiator's connect starts.
NextResponderFirst ==
  \/ gen["callee"] = 0 /\ Connect("callee")
  \/ gen["caller"] = 0 /\ cstep[<<"callee", 1>>] = "done" /\ Connect("caller")
  \/ \E p \in Peers : ConnectStep(p)
  \/ \E r \in Roles : \E d \in relay : Deliver(r, d)
  \/ ConnectionEvent

SpecResponderFirst == InitClean /\ [][NextResponderFirst]_vars

\* The session in which a listener can get a handled document once more.
NextDuplicate ==
  \/ Next
  \/ \E p \in Peers : \E d \in delivered[p] : Redeliver(p, d)

SpecDuplicate == InitClean /\ [][NextDuplicate]_vars

\* The session in which the transport of a connection can fail.
NextFailure ==
  \/ Next
  \/ \E p \in Peers : ConnectionFailed(p)

SpecFailure == InitClean /\ [][NextFailure]_vars

\* The session in which the transport of a connection can fail and a peer
\* whose connection has failed can get a handled Ready or Offer once more.
NextFailureDuplicate ==
  \/ NextFailure
  \/ \E p \in Peers : \E d \in delivered[p] :
        /\ pc[p].conn = "failed"
        /\ d.type \in {"ready", "offer"}
        /\ Redeliver(p, d)

SpecFailureDuplicate == InitClean /\ [][NextFailureDuplicate]_vars

\* The session in which the room can reject a write.
SendRejected ==
  /\ relayLog.rejected < MaxFail
  /\ \/ \E p \in Peers : sendReadyWith(p, FALSE)
     \/ \E p \in Peers : RunOpWith(p, FALSE)
     \/ \E p \in Peers : onicecandidateWith(p, FALSE)

NextRelayFailure ==
  \/ Next
  \/ SendRejected

SpecRelayFailure == InitClean /\ [][NextRelayFailure]_vars

\* The facade used freely: the Initiator's facade connects again and the
\* facades disconnect at any time, with every snapshot of every listener;
\* the connections do not run.
NextFacade ==
  \/ Connect("caller")
  \/ gen["callee"] = 0 /\ Connect("callee")
  \/ \E f \in Roles : Disconnect(f)
  \/ \E f \in Roles : Render(f)
  \/ \E p \in Peers : ConnectStep(p)
  \/ \E r \in Roles : \E d \in relay : Notify(r, d)

SpecFacade == Init /\ [][NextFacade]_vars

\* ================================================================ claims
\* no further candidate will be found by p
GatheringComplete(p) ==
  \/ pc[p].local = NullData
  \/ ~pc[p].local.m
  \/ pc[p].sig = "closed"
  \/ discovered[p] = MaxCands

\* nothing is left to run: every connect() has returned, every operations
\* chain is empty, no listener has a document to hand over, gathering is
\* complete and every established transport has been reported
Quiet ==
  /\ \A p \in Peers : cstep[p] \in {"none", "done"} /\ chain[p] = <<>>
  /\ \A r \in Roles : \A d \in relay :
        ~(Addressed(d, r) /\ Listeners(r, d) # {})
  /\ \A p \in Peers : GatheringComplete(p)
  /\ \A p, q \in Peers :
        Linked(p, q) => pc[p].conn = "connected" /\ pc[q].conn = "connected"

\* ---------------------------------------------------------------- C1
\* the messages of the handshake of Initiator p and Responder q, and the
\* candidates of both, have all been handed over and processed, and they
\* are the only messages the two have had
HandshakeDelivered(p, q) ==
  /\ RoleOf(p) = "caller" /\ RoleOf(q) = "callee"
  /\ \E d \in delivered[p] : d.type = "ready" /\ d.src = q
  /\ \E d \in delivered[q] : d.type = "offer" /\ d.src = p
  /\ \E d \in delivered[p] : d.type = "answer" /\ d.src = q
  /\ discovered[p] = MaxCands /\ discovered[q] = MaxCands
  /\ \A d \in sent : d.type = "ice-candidate" /\ d.src \in {p, q}
                       => d \in delivered[p] \cup delivered[q]
  /\ chain[p] = <<>> /\ chain[q] = <<>>
  /\ delivered[p] \cup delivered[q] \subseteq sent

\* C1: whatever the order in which Ready, Offer, Answer and the candidates
\* of both sides were handed over, once all of them are processed the two
\* connections have a transport to establish (they are, or are about to
\* be, Connected).
C1_HandshakeConnects ==
  \A p, q \in Peers : HandshakeDelivered(p, q) => Linked(p, q)

\* ---------------------------------------------------------------- C2
\* C2: an Offer an earlier session left in the room is never handed to
\* the Responder's onMessage, is never recorded as its remote description
\* and is never answered.
C2_StaleOfferNotReplayed ==
  \A p \in Peers : \A d \in StaleDocs :
     RoleOf(p) = "callee" /\ d.type = "offer"
       => /\ d \notin delivered[p]
          /\ pc[p].remote # d.data
          /\ ~\E a \in sent : a.type = "answer" /\ a.data.re = Ref(d.data)

\* ---------------------------------------------------------------- C3
\* C3: with the Responder's connect finished before the Initiator's
\* starts, the Ready stays in the room until it is handed to the
\* Initiator, and when the Initiator has connected and nothing is left to
\* run, both connections are connected.
C3_ResponderFirstConnects ==
  /\ \A d \in sent : d.type = "ready"
        => d \in relay \/ \E p \in Peers : d \in delivered[p]
  /\ gen["caller"] = 1 /\ Quiet
        => /\ pc[<<"caller", 1>>].conn = "connected"
           /\ pc[<<"callee", 1>>].conn = "connected"

\* ---------------------------------------------------------------- C4
\* C4: an Offer handed to the Responder is answered at most once, however
\* often it is handed over.
C4_DuplicateOfferIgnored ==
  \A p \in Peers : \A d \in delivered[p] :
     d.type = "offer"
       => Cardinality({a \in sent : /\ a.type = "answer"
                                    /\ a.src = p
                                    /\ a.data.re = Ref(d.data)}) <= 1

\* ---------------------------------------------------------------- C5
\* the connection of p is about to apply a remote answer while it has no
\* local offer outstanding
AnswerWithoutOffer(p) ==
  /\ chain[p] # <<>>
  /\ Head(chain[p]).op = "setRemote"
  /\ Head(chain[p]).arg.k = "answer"
  /\ pc[p].sig # "have-local-offer"

\* C5: when an Answer is processed by a peer with no outstanding local
\* offer, the connection and the negotiation phase are unchanged, nothing
\* is sent, and no error leaves the handler.
C5_AnswerDiscarded ==
  [][\A p \in Peers :
       AnswerWithoutOffer(p) /\ chain'[p] = Tail(chain[p])
         /\ closeCount'[p] = closeCount[p]
       => /\ pc'[p] = pc[p]
          /\ Phase(p)' = Phase(p)
          /\ sent' = sent
          /\ unhandled'[p] = unhandled[p]]_vars

\* an Answer was handed to an Initiator that had created no offer, and
\* has been processed and dropped
C5_Witness ==
  \E p \in Peers : \E d \in delivered[p] :
     /\ d.type = "answer"
     /\ delivered[p] = {d}
     /\ chain[p] = <<>>
     /\ caught[p] = 1
     /\ pc[p].sig = "stable" /\ pc[p].remote = NullData
     /\ pc[p].local = NullData

\* ---------------------------------------------------------------- C6
\* C6: a message whose `to` is "other", once the listeners of both
\* participants have had it, has been handed to onMessage of the
\* participant that did not send it and not to the sender's.
C6_OtherToExactlyOne ==
  \A d \in StaleDocs \cup sent : \A p, q \in Peers :
     /\ d.to = "other"
     /\ RoleOf(p) = d.from /\ RoleOf(q) # d.from
     /\ d \in seen[p] /\ d \in seen[q]
     => d \in delivered[q] /\ d \notin delivered[p]

\* ---------------------------------------------------------------- C7
\* C7: a document is handed to onMessage of at most one peer object of a
\* participant, and only of the participant it is addressed to.
C7_AtMostOnce ==
  \A d \in StaleDocs \cup sent :
     /\ \A r \in Roles :
           Cardinality({p \in Peers : RoleOf(p) = r /\ d \in delivered[p]}) <= 1
     /\ \A p \in Peers : d \in delivered[p] => d.to = RoleOf(p)

\* ---------------------------------------------------------------- C8
\* C8: every Offer an Initiator of this session has sent was created when
\* its data channel existed.
C8_DataChannelBeforeOffer ==
  \A d \in sent : d.type = "offer" => d.data.dc

\* ---------------------------------------------------------------- C9
\* a value JSON represents: no NaN, no undefined
JsonSafe(v) ==
  /\ v.t \notin {"undefined", "nan"}
  /\ \A i \in 1..Len(v.props) : v.props[i].val.t \notin {"undefined", "nan"}

Origs(q) == [i \in 1..Len(q) |-> q[i].orig]

\* C9 as written: every payload sent on an open channel is received, or
\* on its way, exactly once and in order, and every value received equals
\* the value sent.
C9_RoundTripIdentity ==
  \A f \in Roles :
     LET g == targetPeer(f)
     IN  /\ \A i \in 1..Len(received[g]) :
               received[g][i].got = received[g][i].orig
         /\ sentLog[f] = Origs(received[g]) \o Origs(wire[<<g, 1>>])

\* C9 for the payloads JSON represents: each of them is received, or on
\* its way, exactly once and in order, and is received equal to the value
\* sent.
C9_RoundTripJson ==
  \A f \in Roles :
     LET g == targetPeer(f)
     IN  /\ \A i \in 1..Len(received[g]) :
               JsonSafe(received[g][i].orig)
                 => received[g][i].got = received[g][i].orig
         /\ SelectSeq(sentLog[f], JsonSafe)
              = SelectSeq(Origs(received[g]) \o Origs(wire[<<g, 1>>]),
                          JsonSafe)

\* an object payload sent on the open channel has reached the receive
\* callback of the other side
C9_Witness ==
  \E f \in Roles :
     /\ received[f] # <<>>
     /\ received[f][1].orig.t = "obj"
     /\ JsonSafe(received[f][1].orig)
     /\ received[f][1].got = received[f][1].orig
     /\ sentLog[targetPeer(f)] # <<>>

\* ---------------------------------------------------------------- C10
\* C10: a facade has at most one peer with a registered relay listener
\* and at most one peer with a connection that is not closed.
C10_OneLivePeer ==
  \A f \in Roles :
     /\ Cardinality({p \in Peers : RoleOf(p) = f /\ listening[p]}) <= 1
     /\ Cardinality({p \in Peers : /\ RoleOf(p) = f
                                   /\ cstep[p] # "none"
                                   /\ pc[p].sig # "closed"}) <= 1

\* ---------------------------------------------------------------- C11
\* C11: whatever the sequence of disconnect and connect calls and of
\* renders, close() runs at most once on a peer.
C11_CloseAtMostOnce ==
  \A p \in Peers : closeCount[p] <= 1

\* ---------------------------------------------------------------- C12
\* C12: whenever a peer is torn down, the relay listener is the first
\* thing its close() stops, before the connection and the data channel
\* are released.
C12_ListenerStoppedFirst ==
  \A p \in Peers : teardown[p] # <<>> => teardown[p][1] = "signaling"

\* ---------------------------------------------------------------- C13
\* C13: once close() has run on a peer, its listener gets no further
\* snapshot, its onMessage is not invoked again, and no purge of its
\* init() is outstanding that could still delete a document.
C13_NoCallbackAfterClose ==
  [][\A p \in Peers :
       closeCount[p] > 0
         => /\ seen'[p] = seen[p]
            /\ delivered'[p] = delivered[p]
            /\ redelivered'[p] = redelivered[p]
            /\ cstep[p] = "done" /\ cstep'[p] = "done"]_vars

\* a message addressed to the participant of a closed peer was written
\* by this session and lies in the room, unseen by the closed peer, with
\* no listener of that participant left to take it
C13_Witness ==
  \E p \in Peers : \E d \in relay :
     /\ closeCount[p] > 0
     /\ d \in sent
     /\ Addressed(d, RoleOf(p))
     /\ d \notin seen[p]
     /\ Listeners(RoleOf(p), d) = {}

C15_SendNotOpenIsError ==
  \A f \in Roles : lastSend[f] \notin {"logged", "dropped"}

\* ---------------------------------------------------------------- C16
\* the data channel of p is about to receive a text JSON.parse rejects
MalformedNext(p) ==
  /\ wire[p] # <<>>
  /\ dataChannel[p] = "open"
  /\ ~JSONparse(Head(wire[p]).text).ok

\* C16: when a text that cannot be parsed is received, the error is
\* raised (it is not swallowed), nothing is handed to the receive
\* callback, and every data channel keeps its state.
C16_MalformedDropped ==
  [][\A p \in Peers :
       MalformedNext(p) /\ wire'[p] = Tail(wire[p])
         => /\ received' = received
            /\ dataChannel' = dataChannel
            /\ unhandled'[p] = unhandled[p] + 1]_vars

\* a text that could not be parsed was received and dropped, and the
\* payload sent after it has reached the receive callback unchanged
C16_Witness ==
  \E p \in Peers :
     LET f == RoleOf(p)
         g == targetPeer(f)
     IN  /\ unhandled[p] = 1
         /\ dataChannel[p] = "open"
         /\ Len(sentLog[g]) = 2
         /\ ~JSONparse(JSONstringify(sentLog[g][1])).ok
         /\ Len(received[f]) = 1
         /\ received[f][1].orig = sentLog[g][2]
         /\ received[f][1].got = sentLog[g][2]

\* ---------------------------------------------------------------- C17
\* C17: a message handed to onMessage of a peer whose phase is Closed
\* or Failed is dropped: its handling starts no operation on the
\* connection.
C17_DroppedWhenClosedOrFailed ==
  [][\A p \in Peers :
       Phase(p) \in {"Closed", "Failed"} /\ delivered'[p] # delivered[p]
         => chain'[p] = chain[p]]_vars

\* ---------------------------------------------------------------- C18
\* C18: when the connection of the peer a facade has stored reports
\* failure, the facade no longer shows the session as connected.
C18_FailureVisible ==
  \A f \in Roles :
     peerState[f] # NoPeer /\ pc[peerState[f]].conn = "failed"
       => ~isConnected[f]

C20_OneDescriptionOp ==
  \A p \in Peers :
     Cardinality({i \in 1..Len(chain[p]) : chain[p][i].op # "addIce"}) <= 1

\* ---------------------------------------------------------------- C21
\* the addressing rule of section 4.1 for a listener of participant r
AddressedBySpec(d, r) ==
  d.to = r \/ d.to = "all" \/ (d.to = "other" /\ d.from # r)

\* C21: a document a listener has got as newly added has been handed to
\* its onMessage exactly when `to` is the listener's role, or "all", or
\* "other" with `from` not the listener's role; and a document handed to
\* onMessage of a peer has been deleted from the room.
C21_HandledIffAddressed ==
  \A p \in Peers : \A d \in seen[p] :
     /\ d \in delivered[p] <=> AddressedBySpec(d, RoleOf(p))
     /\ d \in delivered[p] => d \notin relay

\* ---------------------------------------------------------------- C22
\* C22: a snapshot that gives a listener a document not addressed to its
\* participant calls no onMessage, starts nothing on a connection and
\* leaves the room as it was.
C22_SkippedUntouched ==
  [][\A p \in Peers : \A d \in seen'[p] \ seen[p] :
       ~Addressed(d, RoleOf(p))
         => /\ relay' = relay
            /\ delivered' = delivered
            /\ chain' = chain]_vars

\* the Responder's listener has had the Responder's own Ready and left it
\* in the room, where the Initiator's listener has not had it yet
C22_Witness ==
  \E p, q \in Peers : \E d \in relay :
     /\ d \in sent /\ d.type = "ready" /\ d.src = p
     /\ d \in seen[p] /\ d \notin delivered[p]
     /\ listening[q] /\ Addressed(d, RoleOf(q)) /\ d \notin seen[q]

\* ---------------------------------------------------------------- C23
\* the number of times a Ready was handed to p
ReadyHandled(p) ==
  Cardinality({d \in delivered[p] : d.type = "ready"}) + redelivered[p]

\* C23: no Responder has an offer created, pending, stored or sent; every
\* Offer in the room was sent by an Initiator; and an Initiator has
\* created no more offers than Ready messages were handed to it.
C23_OnlyInitiatorOffers ==
  /\ \A p \in Peers :
        RoleOf(p) = "callee"
          => /\ \A i \in 1..Len(chain[p]) : chain[p][i].op # "createOffer"
             /\ pc[p].last.k # "offer"
             /\ pc[p].local.k # "offer"
  /\ \A d \in sent : d.type = "offer" => RoleOf(d.src) = "caller"
  /\ \A p \in Peers :
        RoleOf(p) = "caller"
          => /\ pc[p].n <= ReadyHandled(p)
             /\ Cardinality({d \in sent : d.type = "offer" /\ d.src = p})
                  <= ReadyHandled(p)

\* a Responder that has been handed the Initiator's Offer and a candidate
\* has sent its Answer, and the Initiator's one offer followed a Ready
C23_Witness ==
  \E p, q \in Peers :
     /\ RoleOf(p) = "caller" /\ RoleOf(q) = "callee"
     /\ ReadyHandled(p) = 1 /\ pc[p].n = 1
     /\ \E d \in delivered[q] : d.type = "offer" /\ d.src = p
     /\ \E d \in delivered[q] : d.type = "ice-candidate"
     /\ \E a \in sent : a.type = "answer" /\ a.src = q
     /\ chain[q] = <<>>

\* ---------------------------------------------------------------- C24
\* the connection of p is about to process a candidate
CandidateNext(p) ==
  /\ chain[p] # <<>>
  /\ Head(chain[p]).op = "addIce"

\* C24: when a connection has processed a received candidate, accepted
\* or rejected, the peer's negotiation phase and its descriptions are
\* what they were, nothing was sent, and no error has left the handler.
C24_CandidateKeepsPhase ==
  [][\A p \in Peers :
       CandidateNext(p) /\ chain'[p] = Tail(chain[p])
         /\ closeCount'[p] = closeCount[p]
       => /\ Phase(p)' = Phase(p)
          /\ pc'[p].sig = pc[p].sig
          /\ pc'[p].local = pc[p].local
          /\ pc'[p].remote = pc[p].remote
          /\ sent' = sent
          /\ unhandled'[p] = unhandled[p]]_vars

\* a peer that was handed two candidates has had one rejected and one
\* accepted
C24_Witness ==
  \E p \in Peers :
     /\ caught[p] >= 1
     /\ pc[p].cands # {}
     /\ unhandled[p] = 0
     /\ Cardinality({d \in delivered[p] : d.type = "ice-candidate"}) >= 2

\* ---------------------------------------------------------------- C25
\* the candidate messages peer p adds in this step
NewCandidates(p) ==
  {d \in sent' \ sent : d.type = "ice-candidate" /\ d.src = p}

\* C25: each candidate a connection discovers adds exactly one
\* IceCandidate message to the room, carrying that candidate, with the
\* peer's role as `from` and the other role as `to`; and the event that
\* ends discovery adds no message.
C25_OneMessagePerCandidate ==
  [][\A p \in Peers :
       /\ discovered'[p] = discovered[p] + 1
            => /\ Cardinality(NewCandidates(p)) = 1
               /\ sent' \ sent = NewCandidates(p)
               /\ relay' = relay \cup NewCandidates(p)
               /\ \A d \in NewCandidates(p) :
                     /\ d \notin sent /\ d \notin relay
                     /\ d.data.k = "cand" /\ d.data.by = p
                     /\ d.data.n = discovered'[p]
                     /\ d.from = RoleOf(p)
                     /\ d.to \in Roles /\ d.to # RoleOf(p)
       /\ discovered'[p] = discovered[p] => NewCandidates(p) = {}
       /\ pc[p].gathering # "complete" /\ pc'[p].gathering = "complete"
            => sent' = sent /\ relay' = relay]_vars

\* both connections have ended discovery, and each candidate they found
\* is one message of the session
C25_Witness ==
  \E p, q \in Peers :
     /\ RoleOf(p) = "caller" /\ RoleOf(q) = "callee"
     /\ pc[p].gathering = "complete" /\ pc[q].gathering = "complete"
     /\ \A x \in {p, q} :
           /\ discovered[x] = MaxCands
           /\ Cardinality({d \in sent : d.type = "ice-candidate" /\ d.src = x})
                = MaxCands

\* ---------------------------------------------------------------- C26
\* the Offer and Answer messages peer p adds in this step
NewProposals(p) ==
  {d \in sent' \ sent : d.type \in {"offer", "answer"} /\ d.src = p}

\* C26: an Offer is sent by an Initiator whose connection holds that
\* offer as local description; an Answer is sent by a Responder that was
\* handed the answered Offer and whose connection holds an Offer as
\* remote and that answer as local description; and a step in which an
\* operation of the handler is rejected sends nothing and ends the
\* handler.
C26_SendAfterStored ==
  [][\A p \in Peers :
       /\ \A d \in NewProposals(p) :
             /\ pc'[p].local = d.data
             /\ d.type = "offer"
                  => d.data.k = "offer" /\ RoleOf(p) = "caller"
             /\ d.type = "answer"
                  => /\ d.data.k = "answer" /\ RoleOf(p) = "callee"
                     /\ pc'[p].remote.k = "offer"
                     /\ \E o \in delivered[p] :
                           o.type = "offer" /\ Ref(o.data) = d.data.re
       /\ caught'[p] > caught[p]
            => sent' = sent /\ chain'[p] = Tail(chain[p])]_vars

\* an Initiator that created two offers had the first one rejected as
\* local description and has sent the second only, and the Responder has
\* answered that one
C26_Witness ==
  \E p, q \in Peers :
     /\ RoleOf(p) = "caller" /\ RoleOf(q) = "callee"
     /\ pc[p].n = 2 /\ caught[p] >= 1
     /\ {d.data : d \in {e \in sent : e.type = "offer" /\ e.src = p}}
          = {pc[p].last}
     /\ \E a \in sent : /\ a.type = "answer" /\ a.src = q
                        /\ a.data.re = Ref(pc[p].last)
                        /\ pc[q].local = a.data

\* ---------------------------------------------------------------- C27
\* the Ready messages peer p has added
ReadySent(S, p) == {d \in S : d.type = "ready" /\ d.src = p}

\* C27: a Ready is added only by a Responder, addressed to the
\* Initiator, after the Responder's init() has returned with its listener
\* registered, and it is the Responder's first; adding it leaves the
\* negotiation phase as it was, which is Idle when nothing has been
\* handed to the Responder before; and a Responder whose connect has
\* returned has added exactly one.
C27_OneReadyAfterInit ==
  [][\A p \in Peers :
       /\ ReadySent(sent', p) # ReadySent(sent, p)
            => /\ RoleOf(p) = "callee"
               /\ ReadySent(sent, p) = {}
               /\ Cardinality(ReadySent(sent', p)) = 1
               /\ \A d \in ReadySent(sent', p) :
                     d.to = "caller" /\ d.from = "callee" /\ d \in relay'
               /\ listening[p]
               /\ cstep[p] \notin {"none", "getDocs", "purging"}
               /\ Phase(p)' = Phase(p)
               /\ delivered[p] = {} => Phase(p)' = "Idle"
       /\ RoleOf(p) = "callee" /\ cstep'[p] = "done"
            => Cardinality(ReadySent(sent', p)) = 1
       /\ RoleOf(p) = "caller" => ReadySent(sent', p) = {}]_vars

\* a Responder whose init() purged a document of an earlier session has
\* sent its Ready, which has been handed to the Initiator, and its
\* connect has returned with the phase Idle
C27_Witness ==
  \E p, q \in Peers :
     /\ RoleOf(p) = "callee" /\ RoleOf(q) = "caller"
     /\ cstep[p] = "done"
     /\ purged # {}
     /\ Cardinality(ReadySent(sent, p)) = 1
     /\ ReadySent(sent, p) \subseteq delivered[q]
     /\ Phase(p) = "Idle"

\* ---------------------------------------------------------------- C28
\* the Ready, Offer and Answer messages peer p has added
NegotiationSent(S, p) ==
  {d \in S : d.type \in {"ready", "offer", "answer"} /\ d.src = p}

\* C28: a peer whose connection has failed adds no Ready, Offer or Answer
\* to the room and stays in a terminal phase.
C28_NoRenegotiationAfterFailure ==
  [][\A p \in Peers :
       pc[p].conn = "failed"
         => /\ NegotiationSent(sent', p) = NegotiationSent(sent, p)
            /\ Phase(p)' \in {"Failed", "Closed"}]_vars

\* ---------------------------------------------------------------- C29
\* init() of p has returned
InitCompleted(p) == cstep[p] \in {"delay", "ready-sent", "done"}

\* the messages in the room that are addressed to participant r
PendingFor(r) == {d \in relay : Addressed(d, r)}

\* participant r has a registered listener
Listening(r) == \E p \in Peers : RoleOf(p) = r /\ listening[p]

\* C29: when the getDocs of an init() returns, every message then in the
\* room is deleted, and once an init() has returned no message of an
\* earlier session is in the room; a message handed to onMessage is no
\* longer in the room; while a participant is listening, the messages
\* addressed to it are eventually all deleted; and when both participants
\* have connected, the room is in the end empty for good.
C29_PurgedAndDrained ==
  /\ [][\A p \in Peers :
          cstep[p] = "getDocs" /\ cstep'[p] # "getDocs" => relay' = {}]_vars
  /\ []((\E p \in Peers : InitCompleted(p)) => relay \cap StaleDocs = {})
  /\ [](\A p \in Peers : delivered[p] \cap relay = {})
  /\ \A r \in Roles :
        (Listening(r) /\ PendingFor(r) # {}) ~> (PendingFor(r) = {})
  /\ <>[]((\A f \in Roles : gen[f] > 0) => relay = {})

\* after a purge of old messages and a handshake that connected both
\* sides, with the candidates of both handed over, the room is empty
C29_Witness ==
  \E p, q \in Peers :
     /\ HandshakeDelivered(p, q)
     /\ pc[p].conn = "connected" /\ pc[q].conn = "connected"
     /\ purged \cap StaleDocs # {}
     /\ relay = {}

\* ---------------------------------------------------------------- C30
\* the rejection of the write of this step has reached the caller of
\* sendMessage: the catch block of a handler, the connect() that awaited
\* sendReady, or the promise onicecandidate left unhandled
RejectionReported ==
  \E p \in Peers :
     \/ caught'[p] = caught[p] + 1
     \/ unhandled'[p] = unhandled[p] + 1
     \/ cstep[p] = "delay" /\ cstep'[p] = "rejected"

\* C30: a call of sendMessage writes at most one document; a call whose
\* write is rejected writes none and its caller gets the rejection; no
\* document is added to the room except by a call of sendMessage, so that
\* a rejected message is not written later; and the documents written are
\* as many as the calls that were not rejected.
C30_RejectedSendNotRetried ==
  [][/\ relayLog'.calls = relayLog.calls
          => relay' \subseteq relay /\ sent' = sent /\ relayLog' = relayLog
     /\ relayLog'.calls # relayLog.calls
          => /\ relayLog'.calls = relayLog.calls + 1
             /\ Cardinality(relay' \ relay) <= 1
             /\ relayLog'.written + relayLog'.rejected = relayLog'.calls
             /\ relayLog'.written = Cardinality(sent')
             /\ relayLog'.rejected # relayLog.rejected
                  => /\ relay' = relay /\ sent' = sent
                     /\ relayLog'.written = relayLog.written
                     /\ RejectionReported]_vars

\* the write of the Initiator's Offer was rejected: the offer is stored as
\* local description, the handler has caught the error, and no Offer was
\* ever written, while the Ready before it was
C30_Witness ==
  \E p \in Peers :
     /\ RoleOf(p) = "caller"
     /\ pc[p].local.k = "offer"
     /\ caught[p] = 1
     /\ chain[p] = <<>>
     /\ relayLog.rejected = 1 /\ relayLog.written >= 1
     /\ ~\E d \in sent : d.type = "offer"

\* ---------------------------------------------------------------- C31
\* C31: an Initiator has created at most one offer and has sent at most
\* one Offer, however often a Ready was handed to it.
C31_AtMostOneOffer ==
  \A p \in Peers :
     RoleOf(p) = "caller"
       => /\ pc[p].n <= 1
          /\ Cardinality({d \in sent : d.type = "offer" /\ d.src = p}) <= 1

\* ---------------------------------------------------------------- C32
\* C32: no message written in this session has been deleted by the purge
\* of an init() (a message the purge finds in the room has not been
\* handed to its addressee, which would have deleted it).
C32_PurgeSparesSession ==
  purged \cap sent = {}

\* ---------------------------------------------------------------- C33
\* the connect() that created p has not returned yet
ConnectInProgress(p) ==
  cstep[p] \in {"getDocs", "purging", "delay", "ready-sent"}

\* this step is a call of disconnect() of facade f that found a peer
DisconnectStep(f) ==
  /\ peerRef[f] # NoPeer
  /\ peerRef'[f] = peerRef[f]
  /\ gen'[f] = gen[f]
  /\ closeCount'[peerRef[f]] = closeCount[peerRef[f]] + 1

\* C33: when disconnect() of a facade has run, no peer of that facade
\* whose connect() is still in progress is listening or has an open
\* connection.
C33_DisconnectStopsConnect ==
  [][\A f \in Roles :
       DisconnectStep(f)
         => \A p \in Peers :
               RoleOf(p) = f /\ ConnectInProgress(p)
                 => ~listening'[p] /\ pc'[p].sig = "closed"]_vars

\* ---------------------------------------------------------------- C34
\* C34: a step in which a connection creates an offer or an answer is
\* taken by a peer whose local tracks have been added.
C34_TracksBeforeDescription ==
  [][\A p \in Peers : pc'[p].n # pc[p].n => pc[p].tracks]_vars


\* ==================================================================== Game
\* The Game of the application (class Game): the gesture sequences of the
\* three spells, the player's health and the burn started by the opponent.

\* gestures a sequence is drawn from (possibleGestures: every gesture but
\* "None"), as numbers
NumGestures == 3

\* opponent fire spells handed to one Game
MaxFire == 3

\* runs of the lose callbacks after which the burn is followed no further
MaxLose == 2

spellKind == [fire |-> 0, water |-> 1, plant |-> 2]

SpellKinds == {spellKind.fire, spellKind.water, spellKind.plant}

\* GESTURES.none
GestureNone == 0

possibleGestures == 1..NumGestures

Gesture == possibleGestures \cup {GestureNone}

\* every result getRandomSequence() can return: three gestures, no two
\* neighbours equal, no None
getRandomSequence ==
  {s \in [1..3 -> possibleGestures] : \A i \in 1..2 : s[i] # s[i + 1]}

\* the results that start with the first gesture
getRandomSequenceFrom1 ==
  {s \in getRandomSequence : s[1] = 1}

\* the three sequences as the do-while loops leave them, drawn from pool:
\* water differs from fire, plant differs from both
distinctSequences(pool) ==
  {t \in pool \X pool \X pool : t[1] # t[2] /\ t[1] # t[3] /\ t[2] # t[3]}

\* the same without the loops
anySequences(pool) ==
  pool \X pool \X pool

randomSequences(pool) ==
  distinctSequences(pool)

\* the array the constructor and every cast assign to targetSpells
allSpells == <<spellKind.fire, spellKind.water, spellKind.plant>>

\* `new Game()`.  fireInterval 0 is undefined; intervals holds the timers
\* that run and the one fireInterval names, each with the fireTicks of its
\* callback; detected is the argument of the latest processGesture call
NewGameFrom(pool) ==
  /\ ~game.constructed
  /\ \E t \in randomSequences(pool) :
        game' = [constructed |-> TRUE,
                 targetFireSequence |-> t[1],
                 targetWaterSequence |-> t[2],
                 targetPlantSequence |-> t[3],
                 targetSpells |-> allSpells,
                 currentIndex |-> 0,
                 health |-> 100,
                 fireInterval |-> 0,
                 intervals |-> <<>>,
                 loseCalls |-> 0,
                 detected |-> <<>>]
  /\ UNCHANGED netVars

NewGame == NewGameFrom(getRandomSequence)

\* sequence[this.currentIndex] of the spell's sequence; -1 stands for the
\* undefined an index past the end gives
expectedGesture(g, spell) ==
  LET sequence == CASE spell = spellKind.fire  -> g.targetFireSequence
                    [] spell = spellKind.water -> g.targetWaterSequence
                    [] OTHER                   -> g.targetPlantSequence
  IN  IF g.currentIndex + 1 \in DOMAIN sequence
      THEN sequence[g.currentIndex + 1]
      ELSE -1

\* the spells of targetSpells whose expected gesture is the detected one,
\* in the order of targetSpells
matchingSpells(g, detectedGesture) ==
  LET Matches(spell) == detectedGesture = expectedGesture(g, spell)
  IN  SelectSeq(g.targetSpells, Matches)

\* the timers that can still matter: those running and the named one
Live(intervals, named) ==
  [i \in {j \in DOMAIN intervals : intervals[j].running \/ j = named} |->
     intervals[i]]

\* a clearInterval that stops nothing
keepInterval(intervals, id) ==
  intervals

\* clearInterval(id): timer id, if there is one, never fires again
clearInterval(intervals, id) ==
  [i \in DOMAIN intervals |->
     IF i = id THEN [intervals[i] EXCEPT !.running = FALSE]
     ELSE intervals[i]]

\* heal(amount) without the upper limit
healUnlimited(g, amount) ==
  [g EXCEPT !.health = g.health + amount]

\* heal(amount)
heal(g, amount) ==
  [g EXCEPT !.health = IF g.health + amount > 100 THEN 100
                       ELSE g.health + amount]

\* damage(amount): the lose callbacks run whenever the health is 0 after it
damage(g, amount) ==
  LET h == IF g.health - amount < 0 THEN 0 ELSE g.health - amount
  IN  [g EXCEPT !.health = h,
                !.loseCalls = IF h = 0 THEN @ + 1 ELSE @]

\* the effect of a cast on the caster's own Game
castEffect(g, castedSpell) ==
  CASE castedSpell = spellKind.water ->
         heal([g EXCEPT !.intervals = clearInterval(@, g.fireInterval)], 5)
    [] castedSpell = spellKind.plant -> heal(g, 30)
    [] OTHER -> g

\* processGesture(detectedGesture)
processGestureFrom(pool, detectedGesture) ==
  /\ game.constructed
  /\ LET g == [game EXCEPT !.detected = <<detectedGesture>>]
         matching == matchingSpells(game, detectedGesture)
     IN  IF Len(matching) = 0
         THEN game' = g
         ELSE IF Len(matching) = 1 /\ game.currentIndex = 2
         THEN \E t \in randomSequences(pool) :
                 game' = [castEffect(g, matching[1]) EXCEPT
                            !.currentIndex = 0,
                            !.targetSpells = allSpells,
                            !.targetFireSequence = t[1],
                            !.targetWaterSequence = t[2],
                            !.targetPlantSequence = t[3]]
         ELSE game' = [g EXCEPT !.targetSpells = matching,
                                !.currentIndex = @ + 1]
  /\ UNCHANGED netVars

processGesture(detectedGesture) ==
  processGestureFrom(getRandomSequence, detectedGesture)

\* opponentCastSpell(spell): fire replaces the burn timer, the other spells
\* do nothing to this player
opponentCastSpell(spell) ==
  /\ game.constructed
  /\ IF spell = spellKind.fire
     THEN /\ game.fireInterval < MaxFire
          /\ LET id == game.fireInterval + 1
                 cleared == clearInterval(game.intervals, game.fireInterval)
             IN  game' = [game EXCEPT
                            !.intervals =
                               Live(cleared @@
                                    (id :> [fireTicks |-> 0,
                                            running |-> TRUE]), id),
                            !.fireInterval = id]
     ELSE UNCHANGED game
  /\ UNCHANGED netVars

\* the callback of timer id, one second after the last
fireTick(id) ==
  /\ game.constructed
  /\ game.loseCalls < MaxLose
  /\ id \in DOMAIN game.intervals
  /\ game.intervals[id].running
  /\ LET g == damage(game, 5)
         fireTicks == game.intervals[id].fireTicks + 1
         ticked == [g.intervals EXCEPT ![id].fireTicks = fireTicks]
     IN  game' = [g EXCEPT !.intervals =
                     IF fireTicks >= 10
                     THEN clearInterval(ticked, g.fireInterval)
                     ELSE ticked]
  /\ UNCHANGED netVars

\* One Game and the gestures of its player: the constructor draws any three
\* sequences, a cast draws from those that start with the first gesture.
NextGame ==
  \/ NewGame
  \/ \E detectedGesture \in Gesture :
        processGestureFrom(getRandomSequenceFrom1, detectedGesture)

SpecGame == InitClean /\ [][NextGame]_vars

\* One Game, its player and its opponent, with every sequence drawn from
\* those that start with the first gesture.
NextBurn ==
  \/ NewGameFrom(getRandomSequenceFrom1)
  \/ \E detectedGesture \in Gesture :
        processGestureFrom(getRandomSequenceFrom1, detectedGesture)
  \/ \E spell \in SpellKinds : opponentCastSpell(spell)
  \/ \E id \in 1..MaxFire : fireTick(id)

SpecBurn == InitClean /\ [][NextBurn]_vars

\* ---------------------------------------------------------------- C35
\* C35: in every Game currentIndex is 0, 1 or 2 and targetSpells is a
\* non-empty array of distinct spells out of fire, water and plant; a
\* processGesture call whose gesture is expected by no spell of targetSpells
\* leaves currentIndex, targetSpells, the three sequences and the health as
\* they were.
GameShape ==
  game.constructed
    => /\ game.currentIndex \in 0..2
       /\ Len(game.targetSpells) >= 1
       /\ \A i \in DOMAIN game.targetSpells :
             /\ game.targetSpells[i] \in SpellKinds
             /\ \A j \in DOMAIN game.targetSpells :
                   game.targetSpells[i] = game.targetSpells[j] => i = j

NonMatchingCall ==
  /\ game.constructed
  /\ game'.detected # game.detected
  /\ matchingSpells(game, game'.detected[1]) = <<>>

C35_GestureProgress ==
  /\ []GameShape
  /\ [][NonMatchingCall
          => /\ game'.currentIndex = game.currentIndex
             /\ game'.targetSpells = game.targetSpells
             /\ game'.targetFireSequence = game.targetFireSequence
             /\ game'.targetWaterSequence = game.targetWaterSequence
             /\ game'.targetPlantSequence = game.targetPlantSequence
             /\ game'.health = game.health]_vars

\* two spells are left before the third gesture, and the gesture processed
\* last was None
C35_Witness ==
  /\ game.constructed
  /\ game.currentIndex = 2
  /\ Len(game.targetSpells) = 2
  /\ game.detected = <<GestureNone>>


\* ---------------------------------------------------------------- C36
\* C36: the health of a Game is an integer from 0 to 100, whatever was
\* cast, whatever the opponent cast and however often the burn ticked.
C36_HealthInRange ==
  game.constructed => game.health \in 0..100

\* no spell was ever cast, and the burn has ticked on at health 0
C36_Witness ==
  /\ game.constructed
  /\ game.detected = <<>>
  /\ game.health = 0
  /\ game.loseCalls = 2

\* ---------------------------------------------------------------- C37
\* C37: at most one burn timer runs at a time and no timer ticks more than
\* 10 times; a fire spell of the opponent leaves exactly its new timer
\* running, with no tick yet; a tick takes at most 5 from the health; a
\* water cast leaves no timer running.
Running(g) ==
  {i \in DOMAIN g.intervals : g.intervals[i].running}

BurnShape ==
  game.constructed
    => /\ Cardinality(Running(game)) <= 1
       /\ \A i \in DOMAIN game.intervals :
             /\ game.intervals[i].fireTicks <= 10
             /\ game.intervals[i].running => game.intervals[i].fireTicks < 10

FireSpellStep ==
  game.constructed /\ game'.fireInterval # game.fireInterval

WaterCastStep ==
  /\ game.constructed
  /\ game.currentIndex = 2
  /\ game'.currentIndex = 0
  /\ matchingSpells(game, game'.detected[1]) = <<spellKind.water>>

TickStep ==
  /\ game.constructed
  /\ \E i \in DOMAIN game.intervals :
        /\ i \in DOMAIN game'.intervals
        /\ game'.intervals[i].fireTicks # game.intervals[i].fireTicks

C37_OneBurn ==
  /\ []BurnShape
  /\ [][/\ FireSpellStep
             => /\ Running(game') = {game'.fireInterval}
                /\ game'.intervals[game'.fireInterval].fireTicks = 0
        /\ WaterCastStep => Running(game') = {}
        /\ TickStep
             => /\ game'.health >= game.health - 5
                /\ \A i \in DOMAIN game.intervals :
                      game'.intervals[i].fireTicks
                        <= game.intervals[i].fireTicks + 1]_vars

\* the second burn replaced the first and was stopped before its tenth tick
C37_Witness ==
  /\ game.constructed
  /\ game.fireInterval = 2
  /\ ~game.intervals[2].running
  /\ game.intervals[2].fireTicks \in 1..9

\* ---------------------------------------------------------------- C38
\* C38: the lose callbacks of a Game have run at most once.
C38_LoseOnce ==
  game.constructed => game.loseCalls <= 1

====
